---- MODULE Spec2Model ----
(***************************************************************************)
(* Model of homework.py: the fitness tracker's calculators (Training and   *)
(* its subclasses Running, SportsWalking, Swimming), the dispatcher        *)
(* read_package, the formatter InfoMessage.get_message and the script's    *)
(* loop over the packages.                                                 *)
(*                                                                         *)
(* Numbers.  A Python float is modelled as a pair <<n, d>>: the exact      *)
(* rational n/d in lowest terms with d > 0, or, with d = 0, one of the     *)
(* IEEE specials: <<1, 0>> is inf, <<-1, 0>> is -inf, <<0, 0>> is nan.     *)
(* Arithmetic is exact: the rounding of binary floating point (relative    *)
(* error about 1e-16 per operation) is not modelled, except where it       *)
(* decides an outcome: a value exactly half way between two thousandths    *)
(* is rendered as either neighbour.                                        *)
(*                                                                         *)
(* A call returns a record [err, val]: err = "" and the value, or the name *)
(* of the exception it raised.                                             *)
(***************************************************************************)
EXTENDS Integers, Sequences, FiniteSets, TLC

VARIABLES packages, idx, pc, training, info, stdout, exc

vars == <<packages, idx, pc, training, info, stdout, exc>>

(* ------------------------------ bounds -------------------------------- *)

\* Longest batch of packages the loop is run on.
MaxBatch == 2

\* Shortest and longest data list handed to read_package.
MinFields == 2

MaxFields == 6

(* --------------------------- float arithmetic ------------------------- *)

Abs(x) == IF x < 0 THEN -x ELSE x

RECURSIVE GCD(_, _)
GCD(a, b) == IF b = 0 THEN a ELSE GCD(b, a % b)

\* n/d (d # 0) in lowest terms with a positive denominator.
Norm(n, d) ==
    LET g == GCD(Abs(n), Abs(d))
        s == IF d < 0 THEN -1 ELSE 1
    IN  <<s * (Abs(n) \div g) * (IF n < 0 THEN -1 ELSE 1), Abs(d) \div g>>

F(n) == <<n, 1>>

IsFinite(x) == x[2] # 0

IsZero(x) == x[2] # 0 /\ x[1] = 0

RNeg(a) == <<-a[1], a[2]>>

RAbs(a) == <<Abs(a[1]), a[2]>>

\* The sum, over the least common denominator.
RAdd(a, b) ==
    LET g == GCD(a[2], b[2])
    IN  Norm(a[1] * (b[2] \div g) + b[1] * (a[2] \div g), (a[2] \div g) * b[2])

RSub(a, b) == RAdd(a, RNeg(b))

\* The product, cancelling across before multiplying.
RMul(a, b) ==
    LET g1 == GCD(Abs(a[1]), b[2])
        g2 == GCD(Abs(b[1]), a[2])
    IN  <<(a[1] \div g1) * (b[1] \div g2), (a[2] \div g2) * (b[2] \div g1)>>

RInv(b) == IF b[1] < 0 THEN <<-b[2], -b[1]>> ELSE <<b[2], b[1]>>

RDiv(a, b) == RMul(a, RInv(b))

RLess(a, b) == a[1] * b[2] < b[1] * a[2]

RLeq(a, b) == a[1] * b[2] <= b[1] * a[2]

\* The greatest integer <= a.
Floor(a) == a[1] \div a[2]

Return(v) == [err |-> "", val |-> v]

Raise(e) == [err |-> e]

\* Python's a / b on floats: ZeroDivisionError when b is zero.
TrueDiv(a, b) ==
    IF IsZero(b) THEN Raise("ZeroDivisionError") ELSE Return(RDiv(a, b))

\* Python's a // b on floats: the floor of the quotient, as a float.
FloorDiv(a, b) ==
    IF IsZero(b) THEN Raise("ZeroDivisionError")
    ELSE Return(F(Floor(RDiv(a, b))))

(* ------------------------------ Training ------------------------------ *)

M_IN_KM == 1000

MIN_IN_HUR == 60

None == [cls |-> "NoneType"]

Unbound == [cls |-> "unbound"]

\* The class attribute LEN_STEP as an instance of class cls sees it:
\* 0.65 in Training, overridden by 1.38 in Swimming.
LEN_STEP(cls) == IF cls = "Swimming" THEN <<69, 50>> ELSE <<13, 20>>

Training__init__(cls, action, duration, weight) ==
    [cls |-> cls, action |-> action, duration |-> duration,
     weight |-> weight, one_step |-> <<13, 20>>]

\* A slip: the distance is left in metres.
Training_get_distance_metres(self) ==
    Return(RMul(self.action, LEN_STEP(self.cls)))

Training_get_distance(self) ==
    TrueDiv(RMul(self.action, LEN_STEP(self.cls)), F(M_IN_KM))

\* A slip: a zero duration is answered with speed 0 instead of the division.
Training_get_mean_speed_guarded(self) ==
    LET dist == Training_get_distance(self)
    IN  IF dist.err # "" THEN dist
        ELSE IF IsZero(self.duration) THEN Return(F(0))
        ELSE TrueDiv(dist.val, self.duration)

Training_get_mean_speed(self) ==
    LET dist == Training_get_distance(self)
    IN  IF dist.err # "" THEN dist ELSE TrueDiv(dist.val, self.duration)

(* ------------------------------- Running ------------------------------ *)

Running__init__(action, duration, weight) ==
    Training__init__("Running", action, duration, weight)
    @@ [calorie_ratio_1 |-> F(18), calorie_ratio_2 |-> F(20)]

\* A slip: a negative result is raised to 0.
Running_get_spent_calories_clamped(self) ==
    LET average_speed == Training_get_mean_speed(self)
    IN  IF average_speed.err # "" THEN average_speed
        ELSE LET c == RMul(RMul(RDiv(RMul(RSub(RMul(self.calorie_ratio_1,
                                                    average_speed.val),
                                               self.calorie_ratio_2),
                                          self.weight),
                                     F(M_IN_KM)),
                                self.duration),
                           F(MIN_IN_HUR))
             IN  Return(IF c[1] < 0 THEN F(0) ELSE c)

Running_get_spent_calories(self) ==
    LET c_1 == self.calorie_ratio_1
        c_2 == self.calorie_ratio_2
        average_speed == Training_get_mean_speed(self)
        weight == self.weight
        m_in_km == F(M_IN_KM)
        m_in_h == F(MIN_IN_HUR)
        duration == self.duration
    IN  IF average_speed.err # "" THEN average_speed
        ELSE LET q == TrueDiv(RMul(RSub(RMul(c_1, average_speed.val), c_2),
                                   weight), m_in_km)
             IN  IF q.err # "" THEN q
                 ELSE Return(RMul(RMul(q.val, duration), m_in_h))

(* ---------------------------- SportsWalking --------------------------- *)

SportsWalking__init__(action, duration, weight, height) ==
    Training__init__("SportsWalking", action, duration, weight)
    @@ [height |-> height,
        calorie_ratio_1 |-> <<7, 200>>, calorie_ratio_2 |-> <<29, 1000>>]

\* A slip: / where the source has //.
SportsWalking_get_spent_calories_truediv(self) ==
    LET d_min == RMul(self.duration, F(MIN_IN_HUR))
        a_speed == Training_get_mean_speed(self)
    IN  IF a_speed.err # "" THEN a_speed
        ELSE LET q == TrueDiv(RMul(a_speed.val, a_speed.val), self.height)
             IN  IF q.err # "" THEN q
                 ELSE Return(RMul(RAdd(RMul(self.calorie_ratio_1, self.weight),
                                       RMul(RMul(q.val, self.calorie_ratio_2),
                                            self.weight)),
                                  d_min))

SportsWalking_get_spent_calories(self) ==
    LET d_min == RMul(self.duration, F(MIN_IN_HUR))
        c_1 == self.calorie_ratio_1
        c_2 == self.calorie_ratio_2
        weight == self.weight
        height == self.height
        a_speed == Training_get_mean_speed(self)
    IN  IF a_speed.err # "" THEN a_speed
        ELSE LET fl == FloorDiv(RMul(a_speed.val, a_speed.val), height)
             IN  IF fl.err # "" THEN fl
                 ELSE Return(RMul(RAdd(RMul(c_1, weight),
                                       RMul(RMul(fl.val, c_2), weight)),
                                  d_min))

(* ------------------------------ Swimming ------------------------------ *)

\* A slip: the two pool arguments are stored the wrong way round.
Swimming__init__swapped(action, duration, weight, length_pool, count_pool) ==
    Training__init__("Swimming", action, duration, weight)
    @@ [length_pool |-> count_pool, count_pool |-> length_pool,
        calorie_ratio_1 |-> <<11, 10>>, calorie_ratio_2 |-> F(2)]

Swimming__init__(action, duration, weight, length_pool, count_pool) ==
    Training__init__("Swimming", action, duration, weight)
    @@ [length_pool |-> length_pool, count_pool |-> count_pool,
        calorie_ratio_1 |-> <<11, 10>>, calorie_ratio_2 |-> F(2)]

Swimming_get_distance(self) ==
    TrueDiv(RMul(self.action, LEN_STEP(self.cls)), F(M_IN_KM))

\* A slip: the override is missing and the inherited speed is used.
Swimming_get_mean_speed_inherited(self) == Training_get_mean_speed(self)

Swimming_get_mean_speed(self) ==
    LET length_pool == self.length_pool
        count_pool == self.count_pool
        m_in_km == F(M_IN_KM)
        duration == self.duration
        q == TrueDiv(RMul(length_pool, count_pool), m_in_km)
    IN  IF q.err # "" THEN q ELSE TrueDiv(q.val, duration)

Swimming_get_spent_calories(self) ==
    LET a_speed == Swimming_get_mean_speed(self)
        c_1 == self.calorie_ratio_1
        c_2 == self.calorie_ratio_2
    IN  IF a_speed.err # "" THEN a_speed
        ELSE Return(RMul(RMul(RAdd(a_speed.val, c_1), c_2), self.weight))

(* --------------------------- method dispatch -------------------------- *)

get_distance(self) ==
    IF self.cls = "Swimming" THEN Swimming_get_distance(self)
    ELSE Training_get_distance(self)

get_mean_speed(self) ==
    IF self.cls = "Swimming" THEN Swimming_get_mean_speed(self)
    ELSE Training_get_mean_speed(self)

get_spent_calories(self) ==
    CASE self.cls = "Running" -> Running_get_spent_calories(self)
      [] self.cls = "SportsWalking" -> SportsWalking_get_spent_calories(self)
      [] self.cls = "Swimming" -> Swimming_get_spent_calories(self)

InfoMessage__init__(training_type, duration, distance, speed, calories) ==
    [training_type |-> training_type, duration |-> duration,
     distance |-> distance, speed |-> speed, calories |-> calories]

\* Training.show_training_info: the arguments are evaluated left to right and
\* the first exception leaves the call. Looking the method up on None raises
\* AttributeError.
show_training_info(self) ==
    IF self.cls = "NoneType" THEN Raise("AttributeError")
    ELSE LET dist == get_distance(self)
             speed == get_mean_speed(self)
             cal == get_spent_calories(self)
         IN  IF dist.err # "" THEN dist
             ELSE IF speed.err # "" THEN speed
             ELSE IF cal.err # "" THEN cal
             ELSE Return(InfoMessage__init__(self.cls, self.duration,
                                             dist.val, speed.val, cal.val))

(* ----------------------------- read_package --------------------------- *)

training_code ==
    [SWM |-> "Swimming", RUN |-> "Running", WLK |-> "SportsWalking"]

\* A slip: arguments beyond the expected ones are dropped.
Construct_lenient(cls, data) ==
    CASE cls = "Running" ->
           IF Len(data) < 3 THEN Raise("TypeError")
           ELSE Return(Running__init__(data[1], data[2], data[3]))
      [] cls = "SportsWalking" ->
           IF Len(data) < 4 THEN Raise("TypeError")
           ELSE Return(SportsWalking__init__(data[1], data[2], data[3],
                                             data[4]))
      [] cls = "Swimming" ->
           IF Len(data) < 5 THEN Raise("TypeError")
           ELSE Return(Swimming__init__(data[1], data[2], data[3], data[4],
                                        data[5]))

\* cls(*data): the interpreter binds data to __init__'s positional
\* parameters and raises TypeError when their numbers differ.
Construct(cls, data) ==
    CASE cls = "Running" ->
           IF Len(data) # 3 THEN Raise("TypeError")
           ELSE Return(Running__init__(data[1], data[2], data[3]))
      [] cls = "SportsWalking" ->
           IF Len(data) # 4 THEN Raise("TypeError")
           ELSE Return(SportsWalking__init__(data[1], data[2], data[3],
                                             data[4]))
      [] cls = "Swimming" ->
           IF Len(data) # 5 THEN Raise("TypeError")
           ELSE Return(Swimming__init__(data[1], data[2], data[3], data[4],
                                        data[5]))

read_package(workout_type, data) ==
    IF workout_type \in DOMAIN training_code
    THEN Construct(training_code[workout_type], data)
    ELSE Return(None)

(* ------------------------- InfoMessage.get_message -------------------- *)

Digit(k) == <<"0", "1", "2", "3", "4", "5", "6", "7", "8", "9">>[k + 1]

RECURSIVE IntDigits(_)
IntDigits(k) ==
    IF k < 10 THEN <<Digit(k)>>
    ELSE Append(IntDigits(k \div 10), Digit(k % 10))

\* The number of thousandths nearest to a >= 0. Half way between two, the
\* binary float lies to one side or the other: up chooses.
Round3(a, up) ==
    LET num == a[1] * 1000
        fl == num \div a[2]
        rem2 == 2 * (num - fl * a[2])
    IN  IF rem2 < a[2] THEN fl
        ELSE IF rem2 > a[2] THEN fl + 1
        ELSE IF up THEN fl + 1 ELSE fl

\* A slip: '.2f'.
Fmt2(x, up) ==
    IF ~IsFinite(x)
    THEN IF x[1] > 0 THEN <<"i", "n", "f">>
         ELSE IF x[1] < 0 THEN <<"-", "i", "n", "f">>
         ELSE <<"n", "a", "n">>
    ELSE LET m == Round3(RAbs(x), up) \div 10
         IN  (IF x[1] < 0 THEN <<"-">> ELSE <<>>)
             \o IntDigits(m \div 100) \o <<".">>
             \o <<Digit((m \div 10) % 10), Digit(m % 10)>>

\* format(x, '.3f') as a sequence of characters.
Fmt3(x, up) ==
    IF ~IsFinite(x)
    THEN IF x[1] > 0 THEN <<"i", "n", "f">>
         ELSE IF x[1] < 0 THEN <<"-", "i", "n", "f">>
         ELSE <<"n", "a", "n">>
    ELSE LET m == Round3(RAbs(x), up)
         IN  (IF x[1] < 0 THEN <<"-">> ELSE <<>>)
             \o IntDigits(m \div 1000) \o <<".">>
             \o <<Digit((m \div 100) % 10), Digit((m \div 10) % 10),
                  Digit(m % 10)>>

\* The message as the sequence of its pieces, each a sequence of tokens: the
\* literal texts of the f-string (transliterated) are one token each, a
\* formatted number is its characters.
get_message(self, ups) ==
    << <<"Tip trenirovki: ">>, <<self.training_type>>,
       <<"; Dlitel'nost': ">>, Fmt3(self.duration, ups[1]),
       <<" ch.; Distantsiya: ">>, Fmt3(self.distance, ups[2]),
       <<" km; Sr. skorost': ">>, Fmt3(self.speed, ups[3]),
       <<" km/ch; Potracheno kkal: ">>, Fmt3(self.calories, ups[4]),
       <<".">> >>

(* ------------------------------- inputs ------------------------------- *)

WorkoutTypes == {"SWM", "RUN", "WLK", "XYZ"}

\* The data lists of the script's own packages, and lists that are too
\* short, too long, or have a zero duration.
BatchData ==
    { <<F(720), F(1), F(80), F(25), F(40)>>,
      <<F(15000), F(1), F(75)>>,
      <<F(9000), F(1), F(75), F(180)>>,
      <<F(1), F(2)>>,
      <<F(9000), F(0), F(75)>>,
      <<F(720), F(1), F(80), F(25), F(40), F(1)>> }

BatchEntries == WorkoutTypes \X BatchData

RECURSIVE SeqsUpTo(_, _)
SeqsUpTo(S, n) ==
    IF n = 0 THEN {<<>>}
    ELSE LET shorter == SeqsUpTo(S, n - 1)
         IN  shorter \cup {Append(s, e) : s \in {t \in shorter : Len(t) = n - 1},
                                          e \in S}

\* The values tried at position k of the data list sent with a code: action,
\* duration, weight, then height or length_pool, then count_pool. The step
\* counts sent with WLK are those whose squared speed, divided by a height,
\* stays within the 32-bit integers of TLC.
FieldVals(code, k) ==
    CASE k = 1 -> IF code = "WLK" THEN {F(0), F(1000), F(9000), F(15000)}
                  ELSE {F(0), F(50), F(720), F(9000), F(15000)}
      [] k = 2 -> {F(0), <<1, 2>>, F(1), F(2)}
      [] k = 3 -> {F(1), F(75), F(80)}
      [] k = 4 -> {F(0), F(1), F(25), F(180)}
      [] k = 5 -> {F(0), F(40)}
      [] OTHER -> {F(1)}

RECURSIVE DataOfLen(_, _)
DataOfLen(code, n) ==
    IF n = 0 THEN {<<>>}
    ELSE {Append(s, v) : s \in DataOfLen(code, n - 1), v \in FieldVals(code, n)}

CalcData(code) == UNION {DataOfLen(code, n) : n \in MinFields..MaxFields}

CalcEntries == UNION {{<<code, data>> : data \in CalcData(code)} :
                        code \in WorkoutTypes}

\* The values a field of an InfoMessage is drawn from: zero, a half way
\* case, a negative value, a large one, and the IEEE specials.
FmtVals ==
    {F(0), <<13, 2000>>, <<-1, 10000>>, <<39, 4>>, F(123456),
     <<1, 0>>, <<-1, 0>>, <<0, 0>>}

Ups == [1..4 -> BOOLEAN]

(* ------------------------------ the script ---------------------------- *)

\* for workout_type, data in packages: training = read_package(...)
ReadPackage ==
    /\ pc = "read" /\ exc = "" /\ idx <= Len(packages)
    /\ LET r == read_package(packages[idx][1], packages[idx][2])
       IN  IF r.err # ""
           THEN exc' = r.err /\ UNCHANGED <<pc, training>>
           ELSE training' = r.val /\ pc' = "main" /\ UNCHANGED exc
    /\ UNCHANGED <<packages, idx, info, stdout>>

\* main: info = training.show_training_info()
ShowTrainingInfo ==
    /\ pc = "main" /\ exc = ""
    /\ LET r == show_training_info(training)
       IN  IF r.err # ""
           THEN exc' = r.err /\ UNCHANGED <<pc, info>>
           ELSE info' = r.val /\ pc' = "print" /\ UNCHANGED exc
    /\ UNCHANGED <<packages, idx, training, stdout>>

\* main: print(info.get_message()), and on to the next package.
PrintMessage ==
    /\ pc = "print" /\ exc = ""
    /\ \E ups \in Ups : stdout' = Append(stdout, get_message(info, ups))
    /\ idx' = idx + 1
    /\ pc' = "read"
    /\ UNCHANGED <<packages, training, info, exc>>

\* The script has ended: the loop ran out of packages, or an exception that
\* nothing catches left it.
Terminated == exc # "" \/ (pc = "read" /\ idx > Len(packages))

Start(batches) ==
    /\ packages \in batches
    /\ idx = 1
    /\ pc = "read"
    /\ training = Unbound
    /\ info = Unbound
    /\ stdout = <<>>
    /\ exc = ""

Init == Start(SeqsUpTo(BatchEntries, MaxBatch))

Next == ReadPackage \/ ShowTrainingInfo \/ PrintMessage

\* The script on batches of packages.
Spec == Init /\ [][Next]_vars

InitCalc == Start({<<e>> : e \in CalcEntries})

\* The script on one package, over a wide range of data.
SpecCalc == InitCalc /\ [][Next]_vars

InitFmt ==
    /\ packages = <<>>
    /\ idx = 1
    /\ pc = "print"
    /\ training = Unbound
    /\ info \in {InfoMessage__init__(t, a, b, c, d) :
                   t \in {"Running", "SportsWalking", "Swimming"},
                   a \in FmtVals, b \in FmtVals, c \in FmtVals, d \in FmtVals}
    /\ stdout = <<>>
    /\ exc = ""

NextFmt == PrintMessage

\* get_message applied to any InfoMessage.
SpecFmt == InitFmt /\ [][NextFmt]_vars

(* ------------------------------- claims ------------------------------- *)

\* The package the loop is at.
Code == packages[idx][1]

Data == packages[idx][2]

KnownCodes == {"SWM", "RUN", "WLK"}

\* The number of fields each variant expects.
FieldCount(code) ==
    CASE code = "RUN" -> 3 [] code = "WLK" -> 4 [] code = "SWM" -> 5

\* A package whose summary can be computed: a known code, the right number
\* of fields and no division by zero.
Processable(e) ==
    /\ e[1] \in KnownCodes
    /\ Len(e[2]) = FieldCount(e[1])
    /\ ~IsZero(e[2][2])
    /\ e[1] = "WLK" => ~IsZero(e[2][4])

\* C1: read_package fails with UnknownWorkoutType whenever the code is not
\* SWM, RUN or WLK, for any data; it never returns normally for such a code.
\* As an invariant: while the loop is at a package with an unknown code, it
\* is still before the call or the call has raised UnknownWorkoutType.
C1_UnknownCodeFails ==
    (idx <= Len(packages) /\ Code \notin KnownCodes)
        => (pc = "read" /\ exc \in {"", "UnknownWorkoutType"})

\* C2: a package with an unknown code aborts only itself: every other
\* package of the batch, before and after it, is still processed and yields
\* its summary. As an invariant: when the script has ended on a batch whose
\* packages are each either of unknown code or processable, one summary was
\* printed for each processable package.
C2_OthersContinue ==
    (Terminated /\ \A i \in 1..Len(packages) :
                       packages[i][1] \notin KnownCodes \/ Processable(packages[i]))
        => Len(stdout) = Cardinality({i \in 1..Len(packages) :
                                         Processable(packages[i])})

\* C3: for a known code, read_package fails with the arity error (Python's
\* TypeError from the constructor call) whenever data has not exactly the
\* variant's number of fields, too short or too long, and constructs no
\* calculator: the step taken at such a package raises TypeError and leaves
\* training as it was.
C3_ArityMismatch ==
    [][(/\ pc = "read" /\ exc = "" /\ idx <= Len(packages)
        /\ Code \in KnownCodes
        /\ Len(Data) # FieldCount(Code))
       => (exc' = "TypeError" /\ training' = training /\ pc' = "read"
           /\ stdout' = stdout)]_vars

C3_Witness ==
    /\ pc = "read" /\ exc = "TypeError" /\ idx <= Len(packages)
    /\ packages[idx] = <<"RUN", <<F(1), F(2)>> >>

\* C4: for a known code and data of the right length, read_package returns
\* a calculator of the matching class whose fields are the elements of data
\* in order: action, duration, weight, then height (WLK) or length_pool,
\* count_pool (SWM).
C4_PositionalUnpack ==
    (pc \in {"main", "print"} /\ Code \in KnownCodes)
        => /\ Len(Data) = FieldCount(Code)
           /\ training.action = Data[1]
           /\ training.duration = Data[2]
           /\ training.weight = Data[3]
           /\ Code = "RUN" => training.cls = "Running"
           /\ Code = "WLK" => /\ training.cls = "SportsWalking"
                              /\ training.height = Data[4]
           /\ Code = "SWM" => /\ training.cls = "Swimming"
                              /\ training.length_pool = Data[4]
                              /\ training.count_pool = Data[5]

C4_Witness ==
    /\ pc = "main" /\ exc = ""
    /\ packages[idx] = <<"SWM", <<F(720), F(1), F(80), F(25), F(40)>> >>
    /\ training.cls = "Swimming"

RunExample == <<"RUN", <<F(15000), F(1), F(75)>> >>

\* C5 as stated: for RUN with action=15000, duration=1, weight=75 the
\* distance is 9.75, the mean speed 9.75 and the calories are approximately
\* 658.125 (within one half).
C5_RunExampleOriginal ==
    (pc = "print" /\ packages[idx] = RunExample)
        => /\ info.distance = <<39, 4>>
           /\ info.speed = <<39, 4>>
           /\ RLeq(RAbs(RSub(info.calories, <<5265, 8>>)), <<1, 2>>)

\* C5 as amended: for RUN with action=15000, duration=1, weight=75 the
\* distance is 9.75, the mean speed 9.75 and the calories are
\* (18*9.75-20)*75/1000*1*60 = 699.75.
C5_RunExample ==
    (pc = "print" /\ packages[idx] = RunExample)
        => /\ info.distance = <<39, 4>>
           /\ info.speed = <<39, 4>>
           /\ info.calories = <<2799, 4>>
           /\ info.calories =
                RMul(RMul(RDiv(RMul(RSub(RMul(F(18), <<39, 4>>), F(20)), F(75)),
                               F(1000)), F(1)), F(60))

C5_Witness == pc = "print" /\ exc = "" /\ packages[idx] = RunExample

\* The speed action*0.65/1000/duration of a Running or Walking sample.
StepSpeed(data) == RDiv(RDiv(RMul(data[1], Norm(65, 100)), F(1000)), data[2])

\* C6: for a Walking sample with duration > 0 and height > 0 the calories are
\* (0.035*weight + floor(speed^2 / height)*0.029*weight) * (duration*60) with
\* speed = action*0.65/1000/duration; when speed^2 < height they are
\* 0.035*weight*duration*60, 157.5 for action=9000, duration=1, weight=75,
\* height=180.
C6_WalkingCalories ==
    (pc = "print" /\ Code = "WLK")
        => LET weight == Data[3]
               height == Data[4]
               minutes == RMul(Data[2], F(60))
               sq == RMul(StepSpeed(Data), StepSpeed(Data))
               base == RMul(Norm(35, 1000), weight)
           IN  /\ RLess(F(0), Data[2]) /\ RLess(F(0), height)
               /\ info.speed = StepSpeed(Data)
               /\ info.calories =
                    RMul(RAdd(base, RMul(RMul(F(Floor(RDiv(sq, height))),
                                              <<29, 1000>>), weight)),
                         minutes)
               /\ RLess(sq, height) => info.calories = RMul(base, minutes)
               /\ Data = <<F(9000), F(1), F(75), F(180)>>
                    => info.calories = <<315, 2>>

\* A Walking sample whose squared speed divided by the height is above 1 and
\* not whole, so that the floor matters.
C6_Witness ==
    /\ pc = "print" /\ exc = "" /\ Code = "WLK"
    /\ LET q == RDiv(RMul(info.speed, info.speed), Data[4])
       IN  Floor(q) > 0 /\ q[2] # 1

\* C7: for a Swimming sample with duration > 0 the mean speed is
\* pool_length*pool_laps/1000/duration, whatever action is; the distance is
\* action*1.38/1000; the calories are (mean_speed + 1.1)*2*weight.
C7_Swimming ==
    (pc = "print" /\ Code = "SWM")
        => LET speed == RDiv(RDiv(RMul(Data[4], Data[5]), F(1000)), Data[2])
           IN  /\ RLess(F(0), Data[2])
               /\ info.speed = speed
               /\ info.distance = RDiv(RMul(Data[1], Norm(138, 100)), F(1000))
               /\ info.calories =
                    RMul(RMul(RAdd(speed, <<11, 10>>), F(2)), Data[3])
               /\ Data = <<F(720), F(1), F(80), F(25), F(40)>>
                    => /\ info.speed = F(1)
                       /\ info.calories = F(336)
                       /\ info.distance = Norm(9936, 10000)

\* A Swimming sample whose pool-based speed differs from distance/duration.
C7_Witness ==
    /\ pc = "print" /\ exc = "" /\ Code = "SWM"
    /\ Data[1] # F(0)
    /\ info.speed # RDiv(info.distance, Data[2])

\* C8: for a Running sample with duration > 0 the mean speed is
\* distance/duration with distance = action*0.65/1000, and the calories are
\* (18*mean_speed - 20)*weight/1000*duration*60, negative at low speeds.
C8_Running ==
    (pc = "print" /\ Code = "RUN")
        => LET dist == RDiv(RMul(Data[1], Norm(65, 100)), F(1000))
               speed == RDiv(dist, Data[2])
               cal == RMul(RMul(RDiv(RMul(RSub(RMul(F(18), speed), F(20)),
                                          Data[3]), F(1000)), Data[2]), F(60))
           IN  /\ RLess(F(0), Data[2])
               /\ info.distance = dist
               /\ info.speed = speed
               /\ info.calories = cal
               /\ RLess(RMul(F(18), speed), F(20)) => RLess(info.calories, F(0))

\* A Running sample slow enough for the calories to be negative.
C8_Witness ==
    /\ pc = "print" /\ exc = "" /\ Code = "RUN"
    /\ RLess(RMul(F(18), info.speed), F(20))
    /\ info.calories[1] < 0

\* C9: for each variant a sample with duration 0 makes get_mean_speed raise
\* ZeroDivisionError, and with it get_spent_calories and show_training_info,
\* while get_distance succeeds; nothing catches the exception: main never
\* gets to print a summary for the sample and the script takes no further
\* step.
C9_ZeroDuration ==
    (pc \in {"main", "print"} /\ training.cls # "NoneType"
     /\ IsZero(training.duration))
        => /\ get_distance(training).err = ""
           /\ get_mean_speed(training).err = "ZeroDivisionError"
           /\ get_spent_calories(training).err = "ZeroDivisionError"
           /\ show_training_info(training).err = "ZeroDivisionError"
           /\ pc = "main"
           /\ exc \in {"", "ZeroDivisionError"}
           /\ Len(stdout) = idx - 1
           /\ exc # "" => ~ENABLED Next

C9_Witness ==
    /\ pc = "main" /\ exc = "ZeroDivisionError"
    /\ training.cls = "SportsWalking"
    /\ IsZero(training.duration)
    /\ stdout = <<>>

IsDigit(c) == c \in {"0", "1", "2", "3", "4", "5", "6", "7", "8", "9"}

DigitValue(c) == CHOOSE k \in 0..9 : Digit(k) = c

\* text is an optional sign, one or more digits, a point and three digits.
ThreeDecimals(text) ==
    LET n == Len(text)
        first == IF text[1] = "-" THEN 2 ELSE 1
    IN  /\ n >= first + 4
        /\ text[n - 3] = "."
        /\ \A k \in first..n : k # n - 3 => IsDigit(text[k])

RECURSIVE DigitsValue(_)
DigitsValue(ds) ==
    IF ds = <<>> THEN 0
    ELSE 10 * DigitsValue(SubSeq(ds, 1, Len(ds) - 1)) + DigitValue(ds[Len(ds)])

\* The thousandths a three-decimal text (sign aside) stands for.
Thousandths(text) ==
    LET n == Len(text)
        first == IF text[1] = "-" THEN 2 ELSE 1
    IN  DigitsValue(SubSeq(text, first, n - 4) \o SubSeq(text, n - 2, n))

\* text is x to three decimals: three decimals, the sign of x, and a value
\* within half a thousandth of x.
RendersTo3(text, x) ==
    /\ ThreeDecimals(text)
    /\ (text[1] = "-") = (x[1] < 0)
    /\ 2 * Abs(Abs(x[1]) * 1000 - Thousandths(text) * x[2]) <= x[2]

\* The message printed last.
PrintedLast == stdout[Len(stdout)]

\* C10 as stated: the message lists training type, duration, distance,
\* average speed and calories in this order, each of the four numbers with
\* exactly three decimals, whatever the values.
C10_ThreeDecimalsAlways ==
    (pc = "read" /\ stdout # <<>>)
        => /\ Len(PrintedLast) = 11
           /\ PrintedLast[2] = <<info.training_type>>
           /\ ThreeDecimals(PrintedLast[4])
           /\ ThreeDecimals(PrintedLast[6])
           /\ ThreeDecimals(PrintedLast[8])
           /\ ThreeDecimals(PrintedLast[10])

\* What a number is rendered as: a finite one to three decimals, inf, -inf
\* and nan by their names.
RendersTo(text, x) ==
    IF IsFinite(x) THEN RendersTo3(text, x)
    ELSE text = (IF x[1] > 0 THEN <<"i", "n", "f">>
                 ELSE IF x[1] < 0 THEN <<"-", "i", "n", "f">>
                 ELSE <<"n", "a", "n">>)

\* C10 as amended: the message lists training type, duration, distance,
\* average speed and calories in this order, and each of the four numbers
\* that is finite is rendered with exactly three decimals; inf, -inf and nan
\* are rendered as "inf", "-inf" and "nan", without decimals.
C10_ThreeDecimalsFinite ==
    (pc = "read" /\ stdout # <<>>)
        => /\ Len(PrintedLast) = 11
           /\ PrintedLast[2] = <<info.training_type>>
           /\ RendersTo(PrintedLast[4], info.duration)
           /\ RendersTo(PrintedLast[6], info.distance)
           /\ RendersTo(PrintedLast[8], info.speed)
           /\ RendersTo(PrintedLast[10], info.calories)

\* A message of four distinct finite numbers: a large one, a negative one, a
\* half way case.
C10_Witness ==
    /\ pc = "read" /\ stdout # <<>>
    /\ info.duration = <<13, 2000>>
    /\ info.distance = <<39, 4>>
    /\ info.speed = <<-1, 10000>>
    /\ info.calories = F(123456)
    /\ PrintedLast[10] = <<"1", "2", "3", "4", "5", "6", ".", "0", "0", "0">>

====
